---- MODULE Spec2Model ----
(***************************************************************************)
(* Remote command execution of the IDE server:                             *)
(*   - server/terminal.ts : the startup probe of the container runtime,    *)
(*     the WebSocket session handler, the container execution engine and   *)
(*     the simulated shell;                                                *)
(*   - server/local-proxy.js : the local HTTP proxy (POST /exec).          *)
(* Strings are TLA+ strings; the escape character of the ANSI colour codes *)
(* is written as the four characters \x1b.                                 *)
(***************************************************************************)
EXTENDS Integers, Sequences, FiniteSets, TLC

\* ------------------------------------------------------------------ bounds
MaxSessions == 1
MaxRequests == 2
MaxChunks == 2
MaxProxyRequests == 1
MaxConcurrentSessions == 2
MaxLocalCalls == 1
MaxSockets == 2
MaxChecks == 2
MaxWsSends == 1

Sessions == 1..MaxSessions
RequestIds == 1..MaxRequests
ProxyIds == 1..MaxProxyRequests
ConcurrentSessions == 1..MaxConcurrentSessions
LocalCallIds == 1..MaxLocalCalls
SocketIds == 1..MaxSockets
CheckIds == 1..MaxChecks

\* ------------------------------------------------------------ string tools
\* String.prototype.includes
Includes(s, t) ==
  \E i \in 1..(Len(s) - Len(t) + 1) : SubSeq(s, i, i + Len(t) - 1) = t

\* String.prototype.startsWith
StartsWith(s, p) == Len(p) <= Len(s) /\ SubSeq(s, 1, Len(p)) = p

\* String.prototype.endsWith
EndsWith(s, p) == Len(p) <= Len(s) /\ SubSeq(s, Len(s) - Len(p) + 1, Len(s)) = p

\* String.prototype.substring(from), from counted from 0
SubstringFrom(s, from) == IF from >= Len(s) THEN "" ELSE SubSeq(s, from + 1, Len(s))

IsWhitespace(c) == c \in {" ", "\t", "\n", "\r", "\f"}

RECURSIVE TrimStart(_)
TrimStart(s) ==
  IF Len(s) > 0 /\ IsWhitespace(SubSeq(s, 1, 1))
  THEN TrimStart(SubSeq(s, 2, Len(s)))
  ELSE s

RECURSIVE TrimEnd(_)
TrimEnd(s) ==
  IF Len(s) > 0 /\ IsWhitespace(SubSeq(s, Len(s), Len(s)))
  THEN TrimEnd(SubSeq(s, 1, Len(s) - 1))
  ELSE s

\* Mutant: the frame is not trimmed.
TrimNothing(s) == s

\* String.prototype.trim
Trim(s) == TrimEnd(TrimStart(s))

\* ------------------------------------------------------------- frame texts
ESC == "\\x1b"
RED == ESC \o "[31m"
YELLOW == ESC \o "[33m"
CYAN == ESC \o "[36m"
RESET == ESC \o "[0m"
PROMPT == "\r\n$ "
DefaultImage == "node:alpine"

RunningFrame(image, command) ==
  YELLOW \o "Running in " \o image \o ": " \o command \o RESET \o "\r\n"
PullingFrame(image) ==
  CYAN \o "Pulling image " \o image \o " (this might take a moment)..." \o RESET \o "\r\n"
PulledFrame(image) == CYAN \o "Image " \o image \o " pulled." \o RESET \o "\r\n"
ErrorFrame(message) == "\r\n" \o RED \o "Error: " \o message \o RESET \o PROMPT
SimulatingFrame(command) == YELLOW \o "Simulating: " \o command \o RESET \o "\r\n"
WelcomeFrame == ESC \o "[1;34mWelcome to the Real Terminal!" \o RESET \o "\r\n"
DockerBannerFrame ==
  "Connected to backend execution environment (Docker - node:alpine default).\r\n$ "
SimulatedBannerFrame ==
  YELLOW \o "Docker not available. Running in simulated mode (limited functionality)."
         \o RESET \o "\r\n$ "

\* Mutant: standard error forwarded like standard output.
StderrUnmarked(chunk) == chunk

\* stdout.on('data') and stderr.on('data')
StdoutFrame(chunk) == chunk
StderrFrame(chunk) == RED \o chunk \o RESET

\* -------------------------------------------------------- simulated shell
CharAt(s, i) == SubSeq(s, i, i)

\* Smallest position >= from whose character is in stops, Len(s) + 1 if none.
RECURSIVE ScanTo(_, _, _)
ScanTo(s, from, stops) ==
  IF from > Len(s) THEN Len(s) + 1
  ELSE IF CharAt(s, from) \in stops THEN from
  ELSE ScanTo(s, from + 1, stops)

\* One attempt of the pattern  prefix [quotes] ([^quotes]+) [quotes] suffix
\* at position i of s: the captured group, as a one-element set, or {}.
MatchAt(s, i, prefix, quotes, suffix) ==
  LET open == i + Len(prefix)
      close == ScanTo(s, open + 1, quotes)
  IN IF /\ open <= Len(s)
        /\ SubSeq(s, i, open - 1) = prefix
        /\ CharAt(s, open) \in quotes
        /\ close <= Len(s)
        /\ close > open + 1
        /\ SubSeq(s, close + 1, close + Len(suffix)) = suffix
        /\ close + Len(suffix) <= Len(s)
     THEN {SubSeq(s, open + 1, close - 1)}
     ELSE {}

\* String.prototype.match for such a pattern: the leftmost match.
RECURSIVE MatchFrom(_, _, _, _, _)
MatchFrom(s, i, prefix, quotes, suffix) ==
  IF i > Len(s) THEN {}
  ELSE IF MatchAt(s, i, prefix, quotes, suffix) # {}
       THEN MatchAt(s, i, prefix, quotes, suffix)
       ELSE MatchFrom(s, i + 1, prefix, quotes, suffix)

Quotes == {"'", "\""}
\* command.match(/console\.log\(['"]([^'"]+)['"]\)/)
MatchConsoleLog(command) == MatchFrom(command, 1, "console.log(", Quotes, ")")
\* command.match(/print\(['"]([^'"]+)['"]\)/)
MatchPrint(command) == MatchFrom(command, 1, "print(", Quotes, ")")
\* command.match(/python3 "([^"]+)"/)
MatchPythonFile(command) == MatchFrom(command, 1, "python3 ", {"\""}, "")

TheGroup(m) == CHOOSE g \in m : TRUE

NotRecognizedFrame(command) ==
  RED \o "Command not recognized in simulation mode: " \o command \o RESET \o "\r\n"
TipFrame ==
  YELLOW \o "Tip: Docker is not available. The terminal is in simulation mode with limited functionality."
         \o RESET \o "\r\n"
ListingFrames ==
  << "total 24\r\n",
     "drwxr-xr-x  6 user  staff  192 Apr 15 12:34 .\r\n",
     "drwxr-xr-x  4 user  staff  128 Apr 15 12:34 ..\r\n",
     "-rw-r--r--  1 user  staff  284 Apr 15 12:34 index.js\r\n",
     "-rw-r--r--  1 user  staff  123 Apr 15 12:34 package.json\r\n",
     "drwxr-xr-x  4 user  staff  128 Apr 15 12:34 node_modules\r\n" >>

NodeFrames(command) ==
  IF Includes(command, "console.log")
  THEN IF MatchConsoleLog(command) # {}
       THEN << TheGroup(MatchConsoleLog(command)) \o "\r\n" >>
       ELSE << "undefined\r\n" >>
  ELSE << "Program executed successfully.\r\n" >>

PythonFileFrames(filename) ==
  IF filename # ""
  THEN << "Executing Python file: " \o filename \o "\r\n" >>
       \o (IF EndsWith(filename, ".py")
           THEN IF filename = "new.py"
                THEN << "hello world\r\n" >>
                ELSE << "Python script executed successfully.\r\n" >>
           ELSE << RED \o "Error: " \o filename \o " is not a Python file" \o RESET \o "\r\n" >>)
  ELSE << RED \o "Error: Invalid Python file path" \o RESET \o "\r\n" >>

PythonFrames(command) ==
  IF Includes(command, "-c") /\ Includes(command, "print")
  THEN IF MatchPrint(command) # {}
       THEN << TheGroup(MatchPrint(command)) \o "\r\n" >>
       ELSE << "None\r\n" >>
  ELSE IF MatchPythonFile(command) # {}
       THEN PythonFileFrames(TheGroup(MatchPythonFile(command)))
       ELSE << "Python command executed successfully.\r\n" >>

\* Mutant: pwd answers with the working directory of the container.
SimulatedFramesRootDirectory(command) ==
  << SimulatingFrame(command) >> \o
  ( IF command = "node -v" THEN << "v16.15.0\r\n" >>
    ELSE IF command \in {"python --version", "python -V", "python3 --version"}
         THEN << "Python 3.9.13\r\n" >>
    ELSE IF StartsWith(command, "echo")
         THEN << Trim(SubstringFrom(command, 4)) \o "\r\n" >>
    ELSE IF command \in {"ls", "ls -la"} THEN ListingFrames
    ELSE IF command = "pwd" THEN << "/\r\n" >>
    ELSE IF StartsWith(command, "node ") THEN NodeFrames(command)
    ELSE IF StartsWith(command, "python ") \/ StartsWith(command, "python3 ")
         THEN PythonFrames(command)
    ELSE << NotRecognizedFrame(command), TipFrame >> )

\* The frames executeCommandSimulated sends before it arms the prompt timer.
SimulatedFrames(command) ==
  << SimulatingFrame(command) >> \o
  ( IF command = "node -v" THEN << "v16.15.0\r\n" >>
    ELSE IF command \in {"python --version", "python -V", "python3 --version"}
         THEN << "Python 3.9.13\r\n" >>
    ELSE IF StartsWith(command, "echo")
         THEN << Trim(SubstringFrom(command, 4)) \o "\r\n" >>
    ELSE IF command \in {"ls", "ls -la"} THEN ListingFrames
    ELSE IF command = "pwd" THEN << "/workspace\r\n" >>
    ELSE IF StartsWith(command, "node ") THEN NodeFrames(command)
    ELSE IF StartsWith(command, "python ") \/ StartsWith(command, "python3 ")
         THEN PythonFrames(command)
    ELSE << NotRecognizedFrame(command), TipFrame >> )

\* ------------------------------------------------------------------ state
VARIABLES
  isDockerAvailable,  \* terminal.ts: let isDockerAvailable
  probe,              \* the docker.ping() promise of the startup probe
  flagRead,           \* history: some handler has read isDockerAvailable
  ws,                 \* per session: state of its WebSocket
  banner,             \* per session: the frames sent when it opened
  sent,               \* per inbound frame: the ws.send calls made for it, in order
  reqs,               \* per inbound frame: its execution (see NoRequest)
  containers,         \* the runtime's containers, in order of creation
  proxy               \* per HTTP request to the local proxy (see NoProxyRequest)

\* The browser: localTerminalService.ts and the TerminalPanel component.
VARIABLES
  PROXY_CONFIG,       \* localTerminalService.ts: const PROXY_CONFIG
  localCalls,         \* per call of executeLocalCommand (see NoLocalCall)
  checks,             \* per call of isLocalProxyAvailable (see NoCheck)
  panel,              \* TerminalPanel: its state and refs (see NoPanel)
  sockets,            \* per WebSocket the panel created (see NoSocket)
  wsSent              \* the webSocket.current.send calls of the panel, in order

clientVars == << PROXY_CONFIG, localCalls, checks, panel, sockets, wsSent >>

vars == << isDockerAvailable, probe, flagRead, ws, banner, sent, reqs, containers, proxy,
           clientVars >>
terminalVars == << isDockerAvailable, probe, flagRead, ws, banner, sent, reqs, containers >>

\* The inbound frames a client sends (before trimming).
InboundFrames == {"pwd ", " ", ""}
\* The command lines a client types at the simulated shell.
ShellInputs ==
  { "pwd", " pwd\r\n", "pwd -P", "node -v", "python --version", "python -V",
    "python3 --version", "echo hi", "echo", "echoes hi", "ls", "ls -la", "ls -l",
    "cd /tmp", "whoami", "node", "node app.js", "node -e \"console.log('hi')\"",
    "python", "python script.py", "python3 -c \"print('hi')\"",
    "python3 \"new.py\"", "python3 \"notes.txt\"", "\t",
    "node -e console.log(\"it's\")", "python3 -c print('say \"hi\"')" }
\* The texts the command writes, chunk by chunk (each to either stream).
CommandOutput == << "hi\n", "bye\n" >>
ChunkAt(k) == CommandOutput[((k - 1) % Len(CommandOutput)) + 1]
\* error.message of a failed runtime call
ErrorMessage(api) == "(HTTP code 500) server error - " \o api

NoCalls ==
  [inspect |-> 0, pull |-> 0, create |-> 0, start |-> 0, exec |-> 0,
   execStart |-> 0, execInspect |-> 0, stop |-> 0]

\* mode: how the handler dispatched the frame ("empty", "simulated", "container");
\* pc: where the execution stands; container: the local variable `container`
\* (0 is null, otherwise an index of containers); chunks: the number of chunks
\* the exec stream has delivered; inspectResult: how getImage().inspect() ended;
\* flag: the value of isDockerAvailable when the frame arrived; calls: the
\* calls to the container runtime made for the frame; message: the inbound
\* frame as it arrived; raised: the step of the execution that raised an
\* error ("none" when there is none); escaped: the exception that no handler
\* caught ("none" when there is none).
NoRequest ==
  [pc |-> "none", session |-> 0, message |-> "", command |-> "", mode |-> "none",
   flag |-> FALSE, container |-> 0, chunks |-> 0, inspectResult |-> "none",
   calls |-> NoCalls, raised |-> "none", escaped |-> "none"]

\* A JSON null, and a member that is not there.
Null == "<null>"
Absent == "<absent>"

\* route: method and path; host: req.headers.host (Absent when there is none);
\* command: req.body.command (Absent when there is none); routed: a route
\* handler ran; spawned: the calls of child_process.exec; responses: the
\* responses written; status and body: the last response; result: what exec
\* handed to its callback.
NoProxyRequest ==
  [pc |-> "none", route |-> "", host |-> "", command |-> "", routed |-> FALSE,
   spawned |-> 0, responses |-> 0, status |-> 0, body |-> [kind |-> "none"],
   result |-> [kind |-> "none"]]

\* What fetch() settled with: a Response, or the error it rejected with.
NoOutcome == [kind |-> "none"]

\* pc: "status" while the GET /status probe is awaited, "exec" while the POST
\* /exec is awaited; command: the argument; enabled: PROXY_CONFIG.enabled as
\* the call read it; requests: the fetch calls made, in order; status and
\* exec: what the two fetches settled with; settled: the state of the
\* returned promise; result: the value it was fulfilled with.
NoLocalCall ==
  [pc |-> "none", command |-> "", enabled |-> FALSE, requests |-> << >>,
   status |-> NoOutcome, exec |-> NoOutcome, settled |-> "pending",
   result |-> [output |-> "", error |-> ""]]

\* origin: the caller ("mount", "toggle" or "close"); enabled:
\* PROXY_CONFIG.enabled as the call read it; avail: the value returned.
NoCheck == [pc |-> "none", origin |-> "", enabled |-> FALSE, avail |-> FALSE]

\* mounted: the effects of the first render have run; useLocalProxy and
\* status: the two useState values; webSocket: webSocket.current (0 is null,
\* otherwise an index of sockets); notice: the last writeStatus message.
NoPanel ==
  [mounted |-> FALSE, useLocalProxy |-> FALSE, status |-> "Connecting", webSocket |-> 0,
   notice |-> ""]

\* readyState of the WebSocket ("none" before new WebSocket(wsUrl));
\* errored: its error event has fired.
NoSocket == [readyState |-> "none", errored |-> FALSE]

\* The browser after the module has been loaded and before the panel mounts.
ClientInit ==
  /\ PROXY_CONFIG = [url |-> "http://localhost:3030", enabled |-> TRUE]
  /\ localCalls = [c \in LocalCallIds |-> NoLocalCall]
  /\ checks = [k \in CheckIds |-> NoCheck]
  /\ panel = NoPanel
  /\ sockets = [s \in SocketIds |-> NoSocket]
  /\ wsSent = << >>

\* The state after the module has been loaded, for the given clients.
InitFor(clients) ==
  /\ isDockerAvailable = FALSE
  /\ probe \in {"pending", "constructorThrew"}
  /\ flagRead = FALSE
  /\ ws = [s \in clients |-> "none"]
  /\ banner = [s \in clients |-> << >>]
  /\ sent = [r \in RequestIds |-> << >>]
  /\ reqs = [r \in RequestIds |-> NoRequest]
  /\ containers = << >>
  /\ proxy = [i \in ProxyIds |-> NoProxyRequest]
  /\ ClientInit

Init == InitFor(Sessions)
ConcurrentInit == InitFor(ConcurrentSessions)

\* ws.send(text) on the socket of session s; source tells which callback of
\* the request made the call.
Frame(s, source, text) == [to |-> s, source |-> source, text |-> text]
\* The calls of request r are appended to its log.
SendAll(r, frames) == [sent EXCEPT ![r] = @ \o frames]
Send(r, frame) == SendAll(r, << frame >>)

RECURSIVE FramesOf(_, _, _)
FramesOf(s, source, texts) ==
  IF texts = << >> THEN << >>
  ELSE << Frame(s, source, Head(texts)) >> \o FramesOf(s, source, Tail(texts))

\* No 'uncaughtException' handler is installed: the first exception that no
\* handler catches ends the server process.
ProcessUp == \A r \in RequestIds : reqs[r].escaped = "none"

\* ----------------------------------------------------------- startup probe
\* docker.ping().then(() => { isDockerAvailable = true; ... })
ProbeResolves ==
  /\ ProcessUp
  /\ probe = "pending"
  /\ probe' = "resolved"
  /\ isDockerAvailable' = TRUE
  /\ UNCHANGED << flagRead, ws, banner, sent, reqs, containers, proxy, clientVars >>

\* The lines the probe has logged, by how it ended.
ProbeLog(outcome) ==
  CASE outcome = "resolved" -> << "Docker connection established successfully!" >>
    [] outcome = "rejected" ->
         << "Docker not available: connect ENOENT",
            "Using simulated runtime environment instead." >>
    [] outcome = "constructorThrew" ->
         << "Error initializing Docker client: socket path",
            "Using simulated runtime environment instead." >>
    [] OTHER -> << >>

\* Mutant: the flag is set before the ping has answered.
ProbeRejectsFlagSet ==
  /\ ProcessUp
  /\ probe = "pending"
  /\ probe' = "rejected"
  /\ isDockerAvailable' = TRUE
  /\ UNCHANGED << flagRead, ws, banner, sent, reqs, containers, proxy, clientVars >>

\* .catch(error => { log(...) })
ProbeRejects ==
  /\ ProcessUp
  /\ probe = "pending"
  /\ probe' = "rejected"
  /\ UNCHANGED << isDockerAvailable, flagRead, ws, banner, sent, reqs, containers, proxy, clientVars >>

\* ----------------------------------------------------------------- session
\* Mutant: the banner does not look at the flag.
ConnectAlwaysDocker(s) ==
  /\ ProcessUp
  /\ ws[s] = "none"
  /\ ws' = [ws EXCEPT ![s] = "open"]
  /\ banner' = [banner EXCEPT ![s] = << Frame(s, "handler", WelcomeFrame),
                                        Frame(s, "handler", DockerBannerFrame) >>]
  /\ flagRead' = TRUE
  /\ UNCHANGED << isDockerAvailable, probe, sent, reqs, containers, proxy, clientVars >>

\* handleTerminalConnection(ws): the handlers are registered, the welcome
\* frame and the banner chosen by the flag are sent.
Connect(s) ==
  /\ ProcessUp
  /\ ws[s] = "none"
  /\ ws' = [ws EXCEPT ![s] = "open"]
  /\ banner' = [banner EXCEPT ![s] =
                  << Frame(s, "handler", WelcomeFrame),
                     Frame(s, "handler", IF isDockerAvailable THEN DockerBannerFrame
                                                              ELSE SimulatedBannerFrame) >>]
  /\ flagRead' = TRUE
  /\ UNCHANGED << isDockerAvailable, probe, sent, reqs, containers, proxy, clientVars >>

\* ws.on('close'): only logs.
Close(s) ==
  /\ ProcessUp
  /\ ws[s] = "open"
  /\ ws' = [ws EXCEPT ![s] = "closed"]
  /\ UNCHANGED << isDockerAvailable, probe, flagRead, banner, sent, reqs, containers, proxy, clientVars >>

\* Mutant: the handler does not consult the flag.
RouteAlwaysContainer(flag) == "container"

\* if (isDockerAvailable) runCommandInContainer(...) else executeCommandSimulated(...)
Route(flag) == IF flag THEN "container" ELSE "simulated"

\* The next unused request record.
NextRequest == CHOOSE r \in RequestIds : /\ reqs[r].pc = "none"
                                         /\ \A q \in RequestIds : q < r => reqs[q].pc # "none"

\* ws.on('message'): the synchronous part of the handler, up to the first
\* await of runCommandInContainer, the timer of executeCommandSimulated, or
\* the prompt of the empty frame.
Message(s, message) ==
  /\ ProcessUp
  /\ ws[s] = "open"
  /\ \E r \in RequestIds : reqs[r].pc = "none"
  /\ LET r == NextRequest
         command == Trim(message)
         mode == IF command = "" THEN "empty" ELSE Route(isDockerAvailable)
         base == [NoRequest EXCEPT !.session = s, !.message = message,
                                   !.command = command, !.mode = mode,
                                   !.flag = isDockerAvailable]
     IN CASE mode = "empty" ->
               /\ sent' = Send(r, Frame(s, "handler", PROMPT))
               /\ reqs' = [reqs EXCEPT ![r] = [base EXCEPT !.pc = "done"]]
               /\ UNCHANGED flagRead
          [] mode = "simulated" ->
               /\ sent' = SendAll(r, FramesOf(s, "simulated", SimulatedFrames(command)))
               /\ reqs' = [reqs EXCEPT ![r] = [base EXCEPT !.pc = "promptTimer"]]
               /\ flagRead' = TRUE
          [] mode = "container" ->
               /\ sent' = Send(r, Frame(s, "engine", RunningFrame(DefaultImage, command)))
               /\ reqs' = [reqs EXCEPT ![r] = [base EXCEPT !.pc = "inspecting",
                                                            !.calls.inspect = @ + 1]]
               /\ flagRead' = TRUE
  /\ UNCHANGED << isDockerAvailable, probe, ws, banner, containers, proxy, clientVars >>

\* ------------------------------------------------ container execution engine
SessionOf(r) == reqs[r].session
At(r, pc) == ProcessUp /\ reqs[r].pc = pc

\* The catch block of runCommandInContainer, entered with the request record
\* rec: the error line with the prompt is sent, and stop is called when
\* `container` is set.
\* Mutant: `container` is a variable of the module, shared by all requests.
TargetShared(rec) == IF rec.container = 0 THEN 0 ELSE Len(containers)

\* The container a request calls exec and stop on: its local `container`.
Target(rec) == rec.container

\* Mutant: stop is called without looking at `container`.
CaughtRequestUnguarded(rec) == [rec EXCEPT !.pc = "stopping", !.calls.stop = @ + 1]

CaughtRequest(rec) ==
  IF rec.container # 0
  THEN [rec EXCEPT !.pc = "stopping", !.calls.stop = @ + 1]
  ELSE [rec EXCEPT !.pc = "done"]
CaughtContainers(rec) ==
  IF rec.container # 0
  THEN [containers EXCEPT ![Target(rec)].stopCalls = @ + 1]
  ELSE containers
Caught(r, rec, api) ==
  /\ sent' = Send(r, Frame(SessionOf(r), "engine", ErrorFrame(ErrorMessage(api))))
  /\ reqs' = [reqs EXCEPT ![r] = CaughtRequest([rec EXCEPT !.raised = api])]
  /\ containers' = CaughtContainers(rec)

\* Mutant: any inspect error leads to a pull.
PullOnAnyError(result) == result # "found"

\* if (error.statusCode === 404) pull, else rethrow
PullOn(result) == result = "notFound"

\* await docker.getImage(image).inspect() returns or throws.
InspectReturns(r, result) ==
  /\ At(r, "inspecting")
  /\ LET rec == [reqs[r] EXCEPT !.inspectResult = result]
     IN IF result = "found"
        THEN /\ reqs' = [reqs EXCEPT ![r] = [rec EXCEPT !.pc = "creating",
                                                         !.calls.create = @ + 1]]
             /\ UNCHANGED << sent, containers >>
        ELSE IF PullOn(result)
        THEN /\ sent' = Send(r, Frame(SessionOf(r), "engine", PullingFrame(DefaultImage)))
             /\ reqs' = [reqs EXCEPT ![r] = [rec EXCEPT !.pc = "pulling",
                                                         !.calls.pull = @ + 1]]
             /\ UNCHANGED containers
        ELSE Caught(r, rec, "inspect")
  /\ UNCHANGED << isDockerAvailable, probe, flagRead, ws, banner, proxy, clientVars >>

\* Mutant: a failed pull is tried a second time.
PullReturnsRetry(r, ok) ==
  /\ At(r, "pulling")
  /\ IF ok
     THEN /\ sent' = Send(r, Frame(SessionOf(r), "engine", PulledFrame(DefaultImage)))
          /\ reqs' = [reqs EXCEPT ![r].pc = "creating", ![r].calls.create = @ + 1]
          /\ UNCHANGED containers
     ELSE IF reqs[r].calls.pull < 2
     THEN /\ reqs' = [reqs EXCEPT ![r].calls.pull = @ + 1]
          /\ UNCHANGED << sent, containers >>
     ELSE Caught(r, reqs[r], "pull")
  /\ UNCHANGED << isDockerAvailable, probe, flagRead, ws, banner, proxy, clientVars >>

\* await docker.pull(image, {}) returns or throws.
PullReturns(r, ok) ==
  /\ At(r, "pulling")
  /\ IF ok
     THEN /\ sent' = Send(r, Frame(SessionOf(r), "engine", PulledFrame(DefaultImage)))
          /\ reqs' = [reqs EXCEPT ![r].pc = "creating", ![r].calls.create = @ + 1]
          /\ UNCHANGED containers
     ELSE Caught(r, reqs[r], "pull")
  /\ UNCHANGED << isDockerAvailable, probe, flagRead, ws, banner, proxy, clientVars >>

\* container = await docker.createContainer({...}) returns or throws; on
\* success container.start() is called.
CreateReturns(r, ok) ==
  /\ At(r, "creating")
  /\ IF ok
     THEN /\ containers' = Append(containers,
                                  [state |-> "created", stopCalls |-> 0, execs |-> 0,
                                   creator |-> r])
          /\ reqs' = [reqs EXCEPT ![r].container = Len(containers) + 1,
                                  ![r].pc = "starting",
                                  ![r].calls.start = @ + 1]
          /\ UNCHANGED sent
     ELSE Caught(r, reqs[r], "create")
  /\ UNCHANGED << isDockerAvailable, probe, flagRead, ws, banner, proxy, clientVars >>

\* await container.start() returns or throws; on success container.exec({...}).
StartReturns(r, ok) ==
  /\ At(r, "starting")
  /\ IF ok
     THEN /\ containers' = [[containers EXCEPT ![reqs[r].container].state = "running"]
                              EXCEPT ![Target(reqs[r])].execs = @ + 1]
          /\ reqs' = [reqs EXCEPT ![r].pc = "execCreating", ![r].calls.exec = @ + 1]
          /\ UNCHANGED sent
     ELSE Caught(r, reqs[r], "start")
  /\ UNCHANGED << isDockerAvailable, probe, flagRead, ws, banner, proxy, clientVars >>

\* await container.exec({...}) returns or throws; on success exec.start({...}).
ExecCreateReturns(r, ok) ==
  /\ At(r, "execCreating")
  /\ IF ok
     THEN /\ reqs' = [reqs EXCEPT ![r].pc = "execStarting", ![r].calls.execStart = @ + 1]
          /\ UNCHANGED << sent, containers >>
     ELSE Caught(r, reqs[r], "exec")
  /\ UNCHANGED << isDockerAvailable, probe, flagRead, ws, banner, proxy, clientVars >>

\* await exec.start({...}) returns or throws; on success the data listeners,
\* demuxStream and the 'end' listener are set up and the function returns.
ExecStartReturns(r, ok) ==
  /\ At(r, "execStarting")
  /\ IF ok
     THEN /\ reqs' = [reqs EXCEPT ![r].pc = "streaming"]
          /\ UNCHANGED << sent, containers >>
     ELSE Caught(r, reqs[r], "exec start")
  /\ UNCHANGED << isDockerAvailable, probe, flagRead, ws, banner, proxy, clientVars >>

\* The frame a chunk of the given stream is forwarded as.
ChunkFrame(stream, chunk) ==
  IF stream = "stderr" THEN StderrFrame(chunk) ELSE StdoutFrame(chunk)

\* Mutant: the chunks are kept back until the command has completed.
StreamDataBuffered(r, stream) ==
  /\ At(r, "streaming")
  /\ reqs[r].chunks < MaxChunks
  /\ reqs' = [reqs EXCEPT ![r].chunks = @ + 1]
  /\ UNCHANGED << isDockerAvailable, probe, flagRead, ws, banner, sent, containers, proxy, clientVars >>

\* demuxStream delivers one chunk to stdout or stderr; its 'data' listener
\* sends it.
StreamData(r, stream) ==
  /\ At(r, "streaming")
  /\ reqs[r].chunks < MaxChunks
  /\ sent' = Send(r, Frame(SessionOf(r), stream,
                           ChunkFrame(stream, ChunkAt(reqs[r].chunks + 1))))
  /\ reqs' = [reqs EXCEPT ![r].chunks = @ + 1]
  /\ UNCHANGED << isDockerAvailable, probe, flagRead, ws, banner, containers, proxy, clientVars >>

\* execStream.on('end'): exec.inspect() is awaited.
StreamEnd(r) ==
  /\ At(r, "streaming")
  /\ reqs' = [reqs EXCEPT ![r].pc = "execInspecting", ![r].calls.execInspect = @ + 1]
  /\ UNCHANGED << isDockerAvailable, probe, flagRead, ws, banner, sent, containers, proxy, clientVars >>

\* The exec stream fails without 'end'. It has no 'close' listener, so a
\* 'close' runs nothing; it has no 'error' listener either, so an 'error'
\* event is thrown as an uncaught exception, which ends the process and with
\* it every open socket.
StreamFails(r, event) ==
  /\ At(r, "streaming")
  /\ reqs' = [reqs EXCEPT ![r].pc = "streamFailed",
                          ![r].raised = "stream",
                          ![r].escaped = IF event = "error" THEN "uncaughtException"
                                                            ELSE "none"]
  /\ ws' = IF event = "error"
           THEN [s \in DOMAIN ws |-> IF ws[s] = "open" THEN "closed" ELSE ws[s]]
           ELSE ws
  /\ UNCHANGED << isDockerAvailable, probe, flagRead, banner, sent, containers, proxy, clientVars >>

\* await exec.inspect() returns or throws (the throw is caught and logged);
\* setTimeout(() => ws.send('\r\n$ '), 100).
ExecInspectReturns(r, ok) ==
  /\ At(r, "execInspecting")
  /\ reqs' = [reqs EXCEPT ![r].pc = "promptTimer"]
  /\ UNCHANGED << isDockerAvailable, probe, flagRead, ws, banner, sent, containers, proxy, clientVars >>

\* The 100 ms timer of runCommandInContainer or executeCommandSimulated fires.
PromptTimer(r) ==
  /\ At(r, "promptTimer")
  /\ sent' = Send(r, Frame(SessionOf(r), "timer", PROMPT))
  /\ reqs' = [reqs EXCEPT ![r].pc = "done"]
  /\ UNCHANGED << isDockerAvailable, probe, flagRead, ws, banner, containers, proxy, clientVars >>

\* await container.stop() in the catch block returns or throws (the throw is
\* caught and logged). The runtime stops only a running container, which
\* AutoRemove then removes; without a container the call can only throw.
StopReturns(r, ok) ==
  /\ At(r, "stopping")
  /\ ok => (reqs[r].container # 0 /\ containers[reqs[r].container].state = "running")
  /\ containers' = IF ok THEN [containers EXCEPT ![reqs[r].container].state = "removed"]
                         ELSE containers
  /\ reqs' = [reqs EXCEPT ![r].pc = "done"]
  /\ UNCHANGED << isDockerAvailable, probe, flagRead, ws, banner, sent, proxy, clientVars >>

\* --------------------------------------------------------------- local proxy
\* The requests a client makes.
ProxyRoutes == {"POST /exec", "GET /status"}
ProxyHosts ==
  {Absent, "localhost:3030", "127.0.0.1:3030", "localhost", "example.com",
   "localhost.example.com"}
ProxyCommands ==
  {Absent, "", "ls", "sudo rm -rf /", "rm -rf build", "sudo ls", "rm -fr build"}
\* What child_process.exec hands to its callback.
SpawnErrors == {[kind |-> "null"], [kind |-> "Error", message |-> "Command failed: false"]}
SpawnStdouts == {"", "out\n"}
SpawnStderrs == {"", "err\n"}

\* const host = req.headers.host || ''
HostHeader(host) == IF host = Absent THEN "" ELSE host

\* host.includes('localhost') || host.includes('127.0.0.1')
HostAllowed(host) ==
  Includes(HostHeader(host), "localhost") \/ Includes(HostHeader(host), "127.0.0.1")

\* Mutant: only an absent command counts as missing.
CommandMissingOnlyAbsent(command) == command = Absent

\* !command
CommandMissing(command) == command = Absent \/ command = ""

\* Mutant: the blocklist without its second entry.
BlocklistedDeleteOnly(command) == Includes(command, "rm -rf")

\* command.includes('rm -rf') || command.includes('sudo')
Blocklisted(command) == Includes(command, "rm -rf") \/ Includes(command, "sudo")

\* stdout || stderr || 'Command executed (no output)'
SpawnOutput(stdout, stderr) ==
  IF stdout # "" THEN stdout
  ELSE IF stderr # "" THEN stderr
  ELSE "Command executed (no output)"

\* error ? error.message : null
SpawnErrorField(error) == IF error.kind = "Error" THEN error.message ELSE Null

ErrorBody(message) == [kind |-> "error", error |-> message]
Respond(rec, status, body) ==
  [rec EXCEPT !.pc = "responded", !.status = status, !.body = body, !.responses = @ + 1]

\* The response of the middleware and of the route handler to a request,
\* up to the call of exec.
Handled(rec) ==
  IF ~HostAllowed(rec.host)
  THEN Respond(rec, 403, ErrorBody("Access denied - only localhost is allowed"))
  ELSE IF rec.route = "GET /status"
  THEN Respond([rec EXCEPT !.routed = TRUE], 200,
               [kind |-> "status", status |-> "Local proxy running"])
  ELSE IF CommandMissing(rec.command)
  THEN Respond([rec EXCEPT !.routed = TRUE], 400, ErrorBody("Command is required"))
  ELSE IF Blocklisted(rec.command)
  THEN Respond([rec EXCEPT !.routed = TRUE], 403,
               ErrorBody("Potentially dangerous command rejected"))
  ELSE [rec EXCEPT !.routed = TRUE, !.pc = "running", !.spawned = @ + 1]

NextProxyRequest == CHOOSE i \in ProxyIds : /\ proxy[i].pc = "none"
                                           /\ \A j \in ProxyIds : j < i => proxy[j].pc # "none"

\* A request arrives: the localhost middleware, then app.post('/exec') or
\* app.get('/status').
ProxyRequest(route, host, command) ==
  /\ \E i \in ProxyIds : proxy[i].pc = "none"
  /\ route = "GET /status" => command = Absent
  /\ proxy' = [proxy EXCEPT ![NextProxyRequest] =
                 Handled([NoProxyRequest EXCEPT !.route = route, !.host = host,
                                                !.command = command])]
  /\ UNCHANGED << terminalVars, clientVars >>

\* The callback of exec: res.json({ output, error }).
ExecCallback(i, error, stdout, stderr) ==
  /\ proxy[i].pc = "running"
  /\ proxy' = [proxy EXCEPT ![i] =
                 Respond([proxy[i] EXCEPT !.result = [kind |-> "callback", error |-> error,
                                                      stdout |-> stdout, stderr |-> stderr]],
                         200,
                         [kind |-> "exec", output |-> SpawnOutput(stdout, stderr),
                          error |-> SpawnErrorField(error)])]
  /\ UNCHANGED << terminalVars, clientVars >>

ProxyNext ==
  \/ \E route \in ProxyRoutes, host \in ProxyHosts, command \in ProxyCommands :
       ProxyRequest(route, host, command)
  \/ \E i \in ProxyIds, error \in SpawnErrors, stdout \in SpawnStdouts, stderr \in SpawnStderrs :
       ExecCallback(i, error, stdout, stderr)

TerminalNext ==
  \/ ProbeResolves
  \/ ProbeRejects
  \/ \E s \in Sessions : Connect(s)
  \/ \E s \in Sessions : Close(s)
  \/ \E s \in Sessions, m \in InboundFrames : Message(s, m)
  \/ \E r \in RequestIds, result \in {"found", "notFound", "otherError"} : InspectReturns(r, result)
  \/ \E r \in RequestIds, ok \in BOOLEAN : PullReturns(r, ok)
  \/ \E r \in RequestIds, ok \in BOOLEAN : CreateReturns(r, ok)
  \/ \E r \in RequestIds, ok \in BOOLEAN : StartReturns(r, ok)
  \/ \E r \in RequestIds, ok \in BOOLEAN : ExecCreateReturns(r, ok)
  \/ \E r \in RequestIds, ok \in BOOLEAN : ExecStartReturns(r, ok)
  \/ \E r \in RequestIds, stream \in {"stdout", "stderr"} : StreamData(r, stream)
  \/ \E r \in RequestIds : StreamEnd(r)
  \/ \E r \in RequestIds, event \in {"close", "error"} : StreamFails(r, event)
  \/ \E r \in RequestIds, ok \in BOOLEAN : ExecInspectReturns(r, ok)
  \/ \E r \in RequestIds : PromptTimer(r)
  \/ \E r \in RequestIds, ok \in BOOLEAN : StopReturns(r, ok)

Next == TerminalNext

\* The steps of the requests in flight.
EngineNext ==
  \/ \E r \in RequestIds, result \in {"found", "notFound", "otherError"} : InspectReturns(r, result)
  \/ \E r \in RequestIds, ok \in BOOLEAN : PullReturns(r, ok)
  \/ \E r \in RequestIds, ok \in BOOLEAN : CreateReturns(r, ok)
  \/ \E r \in RequestIds, ok \in BOOLEAN : StartReturns(r, ok)
  \/ \E r \in RequestIds, ok \in BOOLEAN : ExecCreateReturns(r, ok)
  \/ \E r \in RequestIds, ok \in BOOLEAN : ExecStartReturns(r, ok)
  \/ \E r \in RequestIds, stream \in {"stdout", "stderr"} : StreamData(r, stream)
  \/ \E r \in RequestIds : StreamEnd(r)
  \/ \E r \in RequestIds, event \in {"close", "error"} : StreamFails(r, event)
  \/ \E r \in RequestIds, ok \in BOOLEAN : ExecInspectReturns(r, ok)
  \/ \E r \in RequestIds : PromptTimer(r)
  \/ \E r \in RequestIds, ok \in BOOLEAN : StopReturns(r, ok)

\* Several clients, each sending the command pwd.
ConcurrentNext ==
  \/ ProbeResolves
  \/ ProbeRejects
  \/ \E s \in ConcurrentSessions : Connect(s)
  \/ \E s \in ConcurrentSessions : Close(s)
  \/ \E s \in ConcurrentSessions : Message(s, "pwd ")
  \/ EngineNext
ConcurrentSpec == ConcurrentInit /\ [][ConcurrentNext]_vars
Spec == Init /\ [][Next]_vars

\* The server on a machine without a container runtime: the probe fails, the
\* flag stays false and every command is answered by the simulated shell.
SimulatedNext ==
  \/ ProbeRejects
  \/ \E s \in Sessions : Connect(s)
  \/ \E s \in Sessions : Close(s)
  \/ \E s \in Sessions, m \in ShellInputs : Message(s, m)
  \/ \E r \in RequestIds : PromptTimer(r)
SimulatedSpec == Init /\ [][SimulatedNext]_vars

\* What the event loop and the container runtime guarantee: a call to the
\* runtime returns or throws, an exec stream ends or fails, and a timer that
\* was armed fires. Nothing obliges a client to connect, to send or to close,
\* nor a command to write output.
Progress ==
  \/ \E r \in RequestIds, result \in {"found", "notFound", "otherError"} : InspectReturns(r, result)
  \/ \E r \in RequestIds, ok \in BOOLEAN :
       \/ PullReturns(r, ok)
       \/ CreateReturns(r, ok)
       \/ StartReturns(r, ok)
       \/ ExecCreateReturns(r, ok)
       \/ ExecStartReturns(r, ok)
       \/ ExecInspectReturns(r, ok)
       \/ StopReturns(r, ok)
  \/ \E r \in RequestIds : StreamEnd(r)
  \/ \E r \in RequestIds, event \in {"close", "error"} : StreamFails(r, event)
  \/ \E r \in RequestIds : PromptTimer(r)
LiveSpec == Spec /\ WF_vars(Progress)

\* The local proxy is a process of its own.
ProxySpec == Init /\ [][ProxyNext]_vars

\* ------------------------------------------- client: localTerminalService.ts
\* A Response of fetch (json: what response.json() settles with) and a
\* rejection of fetch.
Response(status, statusText, json) ==
  [kind |-> "response", status |-> status, statusText |-> statusText, json |-> json]
Rejection(name, message) == [kind |-> "rejection", name |-> name, message |-> message]
JsonValue(value) == [kind |-> "value", value |-> value]
JsonSyntaxError == [kind |-> "SyntaxError", message |-> "Unexpected end of JSON input"]

\* What GET /status can settle with: the proxy's two answers, no listener on
\* the port, and the abort of AbortSignal.timeout(1000).
StatusOutcomes ==
  { Response(200, "OK", JsonValue([status |-> "Local proxy running"])),
    Response(403, "Forbidden",
             JsonValue([error |-> "Access denied - only localhost is allowed"])),
    Rejection("TypeError", "Failed to fetch"),
    Rejection("TimeoutError", "The operation timed out.") }

\* What POST /exec can settle with: the proxy's answers, a 200 whose body is
\* not JSON, and a network failure.
ExecOutcomes ==
  { Response(200, "OK", JsonValue([output |-> "out\n", error |-> Null])),
    Response(200, "OK", JsonSyntaxError),
    Response(400, "Bad Request", JsonValue([error |-> "Command is required"])),
    Response(403, "Forbidden",
             JsonValue([error |-> "Potentially dangerous command rejected"])),
    Rejection("TypeError", "Failed to fetch") }

\* response.ok
ResponseOk(response) == response.status >= 200 /\ response.status <= 299

\* `${response.status}`
StatusText(status) ==
  CASE status = 200 -> "200" [] status = 400 -> "400" [] status = 403 -> "403"

\* Mutant: any answer to the probe counts as an available proxy.
StatusAvailableAnyAnswer(outcome) == outcome.kind = "response"

\* proxyAvailable (l.29-37) and the value of isLocalProxyAvailable (l.75-82):
\* statusResponse.ok, false when fetch rejected.
StatusAvailable(outcome) == outcome.kind = "response" /\ ResponseOk(outcome)

\* l.19-22: the result when PROXY_CONFIG.enabled is false.
DisabledResult(command) ==
  [output |-> "[Simulated] " \o command,
   error |-> "Local proxy is disabled. Enable it in localTerminalService.ts"]

\* l.40-43: the result when the probe did not find the proxy.
NotRunningResult ==
  [output |-> "",
   error |-> "Local proxy server not running. Start it with \"npm run proxy\" in a terminal."]

\* l.54: new Error(`Proxy server error: ${response.status} ${response.statusText}`)
ProxyServerError(response) ==
  "Proxy server error: " \o StatusText(response.status) \o " " \o response.statusText

\* l.58-63: the outer catch; every error thrown here is an Error.
CaughtResult(message) == [output |-> "", error |-> message]

Fulfilled(rec, result) == [rec EXCEPT !.pc = "done", !.settled = "fulfilled", !.result = result]

\* executeLocalCommand(command) up to its first await (l.14-33).
LocalCallStarted(command) ==
  IF ~PROXY_CONFIG.enabled
  THEN Fulfilled([NoLocalCall EXCEPT !.command = command], DisabledResult(command))
  ELSE [NoLocalCall EXCEPT !.pc = "status", !.command = command, !.enabled = TRUE,
                           !.requests = << "GET /status" >>]

\* The probe of executeLocalCommand settles (l.29-52): the proxy was not
\* found, or POST /exec is sent.
LocalStatusSettles(c, outcome) ==
  /\ localCalls[c].pc = "status"
  /\ localCalls' = [localCalls EXCEPT ![c] =
       IF StatusAvailable(outcome)
       THEN [@ EXCEPT !.pc = "exec", !.status = outcome,
                      !.requests = Append(@, "POST /exec")]
       ELSE Fulfilled([@ EXCEPT !.status = outcome], NotRunningResult)]
  /\ UNCHANGED << terminalVars, proxy, PROXY_CONFIG, checks, panel, sockets, wsSent >>

\* POST /exec settles (l.46-63), response.json() included.
LocalExecSettles(c, outcome) ==
  /\ localCalls[c].pc = "exec"
  /\ localCalls' = [localCalls EXCEPT ![c] =
       Fulfilled([@ EXCEPT !.exec = outcome],
         IF outcome.kind = "rejection" THEN CaughtResult(outcome.message)
         ELSE IF ~ResponseOk(outcome) THEN CaughtResult(ProxyServerError(outcome))
         ELSE IF outcome.json.kind = "SyntaxError" THEN CaughtResult(outcome.json.message)
         ELSE outcome.json.value)]
  /\ UNCHANGED << terminalVars, proxy, PROXY_CONFIG, checks, panel, sockets, wsSent >>

\* toggleLocalProxy(enabled) (l.88-90); exported, the panel does not call it.
ToggleLocalProxy(enabled) ==
  /\ PROXY_CONFIG.enabled # enabled
  /\ PROXY_CONFIG' = [PROXY_CONFIG EXCEPT !.enabled = enabled]
  /\ UNCHANGED << terminalVars, proxy, localCalls, checks, panel, sockets, wsSent >>

\* isLocalProxyAvailable() up to its await (l.70-78).
CheckStarted(origin) ==
  [NoCheck EXCEPT !.pc = "pending", !.origin = origin, !.enabled = PROXY_CONFIG.enabled]
NextCheck == CHOOSE k \in CheckIds : /\ checks[k].pc = "none"
                                     /\ \A j \in CheckIds : j < k => checks[j].pc # "none"
CheckFree == \E k \in CheckIds : checks[k].pc = "none"

\* ------------------------------------------------- client: TerminalPanel
PanelCommands == {"ls", ""}

NextSocket == CHOOSE s \in SocketIds : /\ sockets[s].readyState = "none"
                                       /\ \A j \in SocketIds : j < s => sockets[j].readyState # "none"
SocketFree == \E s \in SocketIds : sockets[s].readyState = "none"

\* webSocket.close(): nothing happens once the socket is closing or closed.
CloseCalled(socket) ==
  IF socket.readyState \in {"CONNECTING", "OPEN"}
  THEN [socket EXCEPT !.readyState = "CLOSING"]
  ELSE socket

\* The WebSocket effect where it connects (l.396-423): setStatus, writeStatus,
\* new WebSocket(wsUrl).
Connected(p) ==
  [p EXCEPT !.status = "Connecting",
            !.notice = "Attempting to connect to backend WebSocket...",
            !.webSocket = NextSocket]

\* The state updates of the code that awaited isLocalProxyAvailable():
\* checkLocalProxy (l.284-289), toggleProxyMode (l.433-439) and the then() of
\* onclose (l.412).
AfterCheck(origin, avail) ==
  IF origin = "toggle"
  THEN IF avail
       THEN [useLocalProxy |-> TRUE, status |-> "LocalProxy",
             notice |-> "Switched to Local Proxy mode."]
       ELSE [useLocalProxy |-> panel.useLocalProxy, status |-> panel.status,
             notice |-> "Local proxy server not available. Run \"npm run proxy\"."]
  ELSE IF origin = "close"
  THEN [useLocalProxy |-> avail \/ panel.useLocalProxy, status |-> "LocalProxy",
        notice |-> panel.notice]
  ELSE IF avail
       THEN [useLocalProxy |-> TRUE, status |-> "LocalProxy", notice |-> panel.notice]
       ELSE [useLocalProxy |-> panel.useLocalProxy, status |-> panel.status,
             notice |-> panel.notice]

\* The render that follows the state updates u, with the effects it runs: when
\* useLocalProxy became true, the cleanup of the WebSocket effect and the
\* effect close the socket and forget it (l.423-427); when it became false,
\* the effect connects (l.396-423). The terminal effect makes a new terminal
\* with the new executeCommand in the same commit (l.294-392).
Render(u) ==
  IF u.useLocalProxy = panel.useLocalProxy
  THEN /\ panel' = [panel EXCEPT !.status = u.status, !.notice = u.notice]
       /\ UNCHANGED sockets
  ELSE IF u.useLocalProxy
  THEN /\ panel' = [panel EXCEPT !.useLocalProxy = TRUE, !.status = u.status,
                                 !.notice = u.notice, !.webSocket = 0]
       /\ sockets' = IF panel.webSocket = 0 THEN sockets
                     ELSE [sockets EXCEPT ![panel.webSocket] = CloseCalled(@)]
  ELSE /\ SocketFree
       /\ panel' = Connected([panel EXCEPT !.useLocalProxy = FALSE])
       /\ sockets' = [sockets EXCEPT ![NextSocket].readyState = "CONNECTING"]

\* The effects of the first render: checkLocalProxy() is called (l.283-291),
\* the terminal is made (l.294-392), the WebSocket effect connects (l.395-423).
Mount ==
  /\ ~panel.mounted
  /\ panel' = Connected([panel EXCEPT !.mounted = TRUE])
  /\ sockets' = [sockets EXCEPT ![NextSocket].readyState = "CONNECTING"]
  /\ checks' = [checks EXCEPT ![NextCheck] = CheckStarted("mount")]
  /\ UNCHANGED << terminalVars, proxy, PROXY_CONFIG, localCalls, wsSent >>

\* isLocalProxyAvailable() returns (l.70-83) and its caller goes on. outcome
\* is what its fetch settled with; a call that read enabled = false made no
\* fetch.
CheckSettles(k, outcome) ==
  /\ checks[k].pc = "pending"
  /\ outcome = NoOutcome <=> ~checks[k].enabled
  /\ LET avail == checks[k].enabled /\ StatusAvailable(outcome)
     IN /\ checks' = [checks EXCEPT ![k].pc = "done", ![k].avail = avail]
        /\ Render(AfterCheck(checks[k].origin, avail))
  /\ UNCHANGED << terminalVars, proxy, PROXY_CONFIG, localCalls, wsSent >>

\* toggleProxyMode (l.431-445).
ToggleProxyMode ==
  /\ panel.mounted
  /\ IF ~panel.useLocalProxy
     THEN /\ CheckFree
          /\ checks' = [checks EXCEPT ![NextCheck] = CheckStarted("toggle")]
          /\ UNCHANGED << panel, sockets >>
     ELSE /\ Render([useLocalProxy |-> FALSE, status |-> "Disconnected",
                     notice |-> "Switched to WebSocket mode."])
          /\ UNCHANGED checks
  /\ UNCHANGED << terminalVars, proxy, PROXY_CONFIG, localCalls, wsSent >>

\* webSocket.current.onopen (l.403-406).
SocketOpens(s) ==
  /\ sockets[s].readyState = "CONNECTING"
  /\ sockets' = [sockets EXCEPT ![s].readyState = "OPEN"]
  /\ panel' = [panel EXCEPT !.status = "Connected", !.notice = "WebSocket Connected."]
  /\ UNCHANGED << terminalVars, proxy, PROXY_CONFIG, localCalls, checks, wsSent >>

\* webSocket.current.onerror (l.415-418): the connection failed; its close
\* event follows.
SocketErrors(s) ==
  /\ sockets[s].readyState \in {"CONNECTING", "OPEN", "CLOSING"}
  /\ ~sockets[s].errored
  /\ sockets' = [sockets EXCEPT ![s] = [readyState |-> "CLOSING", errored |-> TRUE]]
  /\ panel' = [panel EXCEPT !.status = "Error", !.notice = "WebSocket Connection Error."]
  /\ UNCHANGED << terminalVars, proxy, PROXY_CONFIG, localCalls, checks, wsSent >>

\* webSocket.current.onclose (l.407-414). The handler closes over the
\* useLocalProxy of the render that made the socket, which is false.
SocketCloses(s) ==
  /\ sockets[s].readyState \in {"OPEN", "CLOSING"}
  /\ CheckFree
  /\ sockets' = [sockets EXCEPT ![s].readyState = "CLOSED"]
  /\ panel' = [panel EXCEPT
       !.status = "Disconnected",
       !.notice = "WebSocket Disconnected. Switched to Local Proxy if available, or commands may fail."]
  /\ checks' = [checks EXCEPT ![NextCheck] = CheckStarted("close")]
  /\ UNCHANGED << terminalVars, proxy, PROXY_CONFIG, localCalls, wsSent >>

\* executeCommand(command) (l.257-280), from Enter in the terminal or the
\* terminal:run-command event.
ExecuteCommand(command) ==
  /\ panel.mounted
  /\ IF panel.useLocalProxy
     THEN /\ \E c \in LocalCallIds :
               /\ localCalls[c].pc = "none"
               /\ \A j \in LocalCallIds : j < c => localCalls[j].pc # "none"
               /\ localCalls' = [localCalls EXCEPT ![c] = LocalCallStarted(command)]
          /\ UNCHANGED << panel, wsSent >>
     ELSE IF panel.webSocket # 0 /\ sockets[panel.webSocket].readyState = "OPEN"
     THEN /\ Len(wsSent) < MaxWsSends
          /\ wsSent' = Append(wsSent, [socket |-> panel.webSocket, data |-> command \o "\n"])
          /\ UNCHANGED << panel, localCalls >>
     ELSE /\ panel' = [panel EXCEPT !.notice = "Error: No connection available"]
          /\ UNCHANGED << localCalls, wsSent >>
  /\ UNCHANGED << terminalVars, proxy, PROXY_CONFIG, checks, sockets >>

ClientNext ==
  \/ Mount
  \/ ToggleProxyMode
  \/ \E enabled \in BOOLEAN : ToggleLocalProxy(enabled)
  \/ \E k \in CheckIds, outcome \in StatusOutcomes \cup {NoOutcome} : CheckSettles(k, outcome)
  \/ \E s \in SocketIds : SocketOpens(s) \/ SocketErrors(s) \/ SocketCloses(s)
  \/ \E command \in PanelCommands : ExecuteCommand(command)
  \/ \E c \in LocalCallIds, outcome \in StatusOutcomes : LocalStatusSettles(c, outcome)
  \/ \E c \in LocalCallIds, outcome \in ExecOutcomes : LocalExecSettles(c, outcome)

ClientSpec == Init /\ [][ClientNext]_vars

\* ====================================================================== claims
\* The number of frames of a log that end with the prompt "\r\n$ ".
RECURSIVE PromptCount(_)
PromptCount(frames) ==
  IF frames = << >> THEN 0
  ELSE (IF EndsWith(Head(frames).text, PROMPT) THEN 1 ELSE 0) + PromptCount(Tail(frames))

Dispatched(r) == reqs[r].pc # "none"
IsErrorLine(text) == StartsWith(text, "\r\n" \o RED \o "Error: ")

\* C1: every run of runCommandInContainer that created a container and has
\* ended (after a normal end of the exec stream or after a throw) has called
\* stop on that container exactly once, and no container is stopped twice.
C1_StoppedExactlyOnce ==
  /\ \A c \in 1..Len(containers) : containers[c].stopCalls <= 1
  /\ \A r \in RequestIds :
       (reqs[r].pc = "done" /\ reqs[r].container # 0)
         => containers[reqs[r].container].stopCalls = 1

\* C2: every inbound frame gets exactly one prompt: never more than one, and
\* exactly one once nothing more will run for the frame.
C2_OnePromptPerCycle ==
  \A r \in RequestIds :
    /\ PromptCount(sent[r]) <= 1
    /\ reqs[r].pc \in {"done", "streamFailed"} => PromptCount(sent[r]) = 1

\* C3: within one session at most one inbound frame is in its response
\* cycle (dispatched, prompt not yet sent) at any time.
InCycle(r) == Dispatched(r) /\ PromptCount(sent[r]) = 0
C3_OneInFlightPerSession ==
  \A q, r \in RequestIds :
    (q # r /\ reqs[q].session = reqs[r].session) => ~(InCycle(q) /\ InCycle(r))

\* C4: a non-empty command that arrives while the flag is false is answered
\* by the simulated shell alone: no call to the container runtime is made for
\* it, whatever the flag becomes afterwards.
C4_SimulatedWhenFlagFalse ==
  \A r \in RequestIds :
    (Dispatched(r) /\ reqs[r].command # "" /\ ~reqs[r].flag)
      => /\ reqs[r].calls = NoCalls
         /\ reqs[r].container = 0
         /\ \A k \in 1..Len(sent[r]) : sent[r][k].source \in {"simulated", "timer"}
C4_Witness ==
  \E r \in RequestIds :
    /\ reqs[r].pc = "done" /\ reqs[r].command = "pwd" /\ ~reqs[r].flag
    /\ isDockerAvailable
    /\ Len(sent[r]) = 3 /\ sent[r][2].text = "/workspace\r\n"

\* C5: the flag never goes from true to false, and never goes from false to
\* true once a session or a request has read it.
C5_FlagReadOnlyOnceRead ==
  [][ /\ isDockerAvailable => isDockerAvailable'
      /\ (flagRead /\ ~isDockerAvailable) => ~isDockerAvailable' ]_vars

\* C6: pull is called if and only if inspect failed with 404, and at most
\* once; after any other inspect error there is no pull, no create, no
\* container, and the request has ended with an error line.
C6_PullIffNotFound ==
  \A r \in RequestIds :
    /\ reqs[r].calls.pull <= 1
    /\ reqs[r].calls.pull = 1 <=> reqs[r].inspectResult = "notFound"
    /\ reqs[r].inspectResult = "otherError"
         => /\ reqs[r].calls.create = 0
            /\ reqs[r].container = 0
            /\ reqs[r].pc = "done"
            /\ IsErrorLine(sent[r][Len(sent[r])].text)
C6_Witness ==
  \E q, r \in RequestIds :
    /\ reqs[q].inspectResult = "notFound" /\ reqs[q].calls.pull = 1 /\ reqs[q].pc = "done"
    /\ reqs[r].inspectResult = "otherError" /\ reqs[r].pc = "done"

\* C7: a POST /exec whose command contains the blocklisted text of a
\* recursive forced delete ("rm -rf") or of a privilege escalation ("sudo")
\* is answered 403 and exec is never called for it.
NamesRecursiveForcedDelete(command) == Includes(command, "rm -rf")
NamesPrivilegeEscalation(command) == Includes(command, "sudo")
HostName(host) == SubSeq(host, 1, ScanTo(host, 1, {":"}) - 1)
IsLoopbackHost(host) == HostName(HostHeader(host)) \in {"localhost", "127.0.0.1"}
C8_NonLoopbackRejected ==
  \A i \in ProxyIds :
    (proxy[i].pc # "none" /\ ~IsLoopbackHost(proxy[i].host))
      => proxy[i].status = 403 /\ ~proxy[i].routed /\ proxy[i].spawned = 0

\* C9: a POST /exec gets exactly one response: 403 if the host check fails,
\* else 400 if the command is missing, else 403 if the command is on the
\* blocklist, else 200 {output, error} once exec has called back, with error
\* null exactly when exec reported no error.
C9_Expected(p) ==
  IF ~HostAllowed(p.host) THEN 403
  ELSE IF p.command \in {Absent, ""} THEN 400
  ELSE IF Includes(p.command, "rm -rf") \/ Includes(p.command, "sudo") THEN 403
  ELSE 200
C9_ExecResponses ==
  \A i \in ProxyIds :
    proxy[i].route = "POST /exec"
      => /\ proxy[i].pc = "responded"
              => proxy[i].responses = 1 /\ proxy[i].status = C9_Expected(proxy[i])
         /\ proxy[i].pc = "running"
              => proxy[i].responses = 0 /\ C9_Expected(proxy[i]) = 200
         /\ proxy[i].status = 200
              => /\ proxy[i].body.kind = "exec"
                 /\ proxy[i].result.kind = "callback"
                 /\ proxy[i].body.error = Null <=> proxy[i].result.error.kind = "null"
                 /\ proxy[i].result.error.kind = "Error"
                      => proxy[i].body.error = proxy[i].result.error.message
C9_Witness ==
  \E i \in ProxyIds :
    /\ proxy[i].route = "POST /exec" /\ proxy[i].status = 200
    /\ proxy[i].body.error = "Command failed: false"

\* C10: every chunk of standard error is sent wrapped in the red marker and
\* every chunk of standard output is sent as it is, without the marker.
C10_StderrMarked ==
  \A r \in RequestIds : \A k \in 1..Len(sent[r]) :
    LET f == sent[r][k]
    IN /\ f.source = "stderr"
            => \E n \in 1..MaxChunks : f.text = RED \o ChunkAt(n) \o RESET
       /\ f.source = "stdout"
            => /\ \E n \in 1..MaxChunks : f.text = ChunkAt(n)
               /\ ~Includes(f.text, RED)
C10_Witness ==
  \E r \in RequestIds :
    /\ reqs[r].pc = "done" /\ Len(sent[r]) = 4
    /\ sent[r][2].source = "stdout" /\ sent[r][3].source = "stderr"

\* C11: when the socket of a session closes while a container-mode request
\* of that session has a container, stop is eventually called on that
\* container.
HasContainer(r) == reqs[r].mode = "container" /\ reqs[r].container # 0
StopCalled(r) == HasContainer(r) /\ containers[reqs[r].container].stopCalls >= 1
ClosedInFlight(r) ==
  /\ HasContainer(r)
  /\ reqs[r].pc # "done"
  /\ ws[reqs[r].session] = "closed"
C11_ClosedStillStopped ==
  \A r \in RequestIds : ClosedInFlight(r) ~> StopCalled(r)

\* The number of error lines in a log.
RECURSIVE ErrorLineCount(_)
ErrorLineCount(frames) ==
  IF frames = << >> THEN 0
  ELSE (IF IsErrorLine(Head(frames).text) THEN 1 ELSE 0) + ErrorLineCount(Tail(frames))

\* C12: whatever step of a request raised an error, the request has sent
\* exactly one error line, no exception has escaped, the process and with it
\* the session is still up, and the session, while open, still takes the next
\* inbound frame.
C12_FailureKeepsSession ==
  \A r \in RequestIds :
    reqs[r].raised # "none"
      => /\ ErrorLineCount(sent[r]) = 1
         /\ reqs[r].escaped = "none"
         /\ ProcessUp
         /\ (ws[reqs[r].session] = "open" /\ \E q \in RequestIds : reqs[q].pc = "none")
              => ENABLED Message(reqs[r].session, "pwd ")

IsChunk(frame) == frame.source \in {"stdout", "stderr"}
IsPullNotice(text) == Includes(text, "Pulling image") \/ Includes(text, " pulled.")

\* C13: a request whose createContainer threw has ended with exactly one
\* error line and no chunk of command output, has not called stop, holds no
\* container, and no container made for it exists.
C13_CreateThrows ==
  \A r \in RequestIds :
    reqs[r].raised = "create"
      => /\ reqs[r].pc = "done"
         /\ ErrorLineCount(sent[r]) = 1
         /\ IsErrorLine(sent[r][Len(sent[r])].text)
         /\ \A k \in 1..Len(sent[r]) : ~IsChunk(sent[r][k])
         /\ reqs[r].calls.stop = 0
         /\ reqs[r].container = 0
         /\ \A c \in 1..Len(containers) : containers[c].creator # r
C13_Witness ==
  \E r \in RequestIds :
    /\ reqs[r].raised = "create" /\ reqs[r].calls.create = 1
    /\ reqs[r].inspectResult = "notFound" /\ Len(sent[r]) = 4

ChunkFrames(frames) == SelectSeq(frames, IsChunk)
\* The four parts of C14, in the order of its statement.
C14_PulledBeforeRun ==
  \A r \in RequestIds :
    (reqs[r].inspectResult = "notFound" /\ reqs[r].calls.create >= 1)
      => /\ Len(sent[r]) >= 3
         /\ Includes(sent[r][2].text, "Pulling image")
         /\ Includes(sent[r][3].text, " pulled.")
         /\ \A k \in 1..Len(sent[r]) : IsPullNotice(sent[r][k].text) => k \in {2, 3}
C14_FoundNoNotice ==
  \A r \in RequestIds :
    reqs[r].inspectResult = "found"
      => \A k \in 1..Len(sent[r]) : ~IsPullNotice(sent[r][k].text)
C14_FoundForwarded ==
  \A r \in RequestIds :
    (reqs[r].inspectResult = "found" /\ reqs[r].pc = "done" /\ reqs[r].raised = "none")
      => /\ Len(ChunkFrames(sent[r])) = reqs[r].chunks
         /\ sent[r][Len(sent[r])].text = "\r\n$ "
C14_FoundStopped ==
  \A r \in RequestIds :
    (reqs[r].inspectResult = "found" /\ reqs[r].pc = "done" /\ reqs[r].raised = "none")
      => StopCalled(r)
\* C14: in container mode, when the image was not found and the pull
\* returned, the second and third frames are the "pulling" and the "pulled"
\* notice, sent before createContainer is called and before any chunk of
\* output; when the image was found, no pull notice is ever sent, and a
\* request that ended without an error has forwarded every chunk, has had
\* stop called on its container, and has the prompt as its last frame.
C14_PullNoticeOrder ==
  /\ C14_PulledBeforeRun
  /\ C14_FoundNoNotice
  /\ C14_FoundForwarded
  /\ C14_FoundStopped

\* C15: the output of a 200 response of POST /exec holds the text the
\* command wrote to standard output and the text it wrote to standard error.
C15_OutputCombined ==
  \A i \in ProxyIds :
    (proxy[i].status = 200 /\ proxy[i].body.kind = "exec")
      => /\ Includes(proxy[i].body.output, proxy[i].result.stdout)
         /\ Includes(proxy[i].body.output, proxy[i].result.stderr)

Texts(frames) == [k \in 1..Len(frames) |-> frames[k].text]

\* The word a command line starts with.
CommandWord(command) == SubSeq(command, 1, ScanTo(command, 1, {" ", "\t"}) - 1)
\* The recognized vocabulary: the interpreter version queries, echo, the
\* directory listings, pwd, and node and python invocations.
InVocabulary(command) ==
  \/ command \in {"node -v", "python --version", "python -V", "python3 --version"}
  \/ CommandWord(command) = "echo"
  \/ command \in {"ls", "ls -la"}
  \/ command = "pwd"
  \/ CommandWord(command) \in {"node", "python", "python3"} /\ command # CommandWord(command)
SaysNotRecognized(frames) ==
  \E k \in 1..Len(frames) : Includes(frames[k].text, "not recognized in simulation mode")

\* C16: in simulated mode a command outside the recognized vocabulary is
\* answered by the "not recognized in simulation mode" message naming the
\* command, then the hint that Docker is not available, then the prompt; a
\* command of the vocabulary is never answered by the "not recognized" message.
C16_UnrecognizedRejected ==
  \A r \in RequestIds :
    reqs[r].mode = "simulated"
      => IF InVocabulary(reqs[r].command)
         THEN ~SaysNotRecognized(sent[r])
         ELSE /\ Len(sent[r]) >= 3
              /\ sent[r][2].text =
                   "\\x1b[31mCommand not recognized in simulation mode: "
                      \o reqs[r].command \o "\\x1b[0m\r\n"
              /\ Includes(sent[r][3].text, "Tip: Docker is not available.")
              /\ reqs[r].pc = "done" => Len(sent[r]) = 4 /\ sent[r][4].text = "\r\n$ "

\* C17: while the flag is false the command pwd is answered by the frame
\* "/workspace", and the frame after it is the prompt.
C17_PwdSimulated ==
  \A r \in RequestIds :
    (Dispatched(r) /\ reqs[r].command = "pwd" /\ ~reqs[r].flag)
      => /\ Len(sent[r]) \in {2, 3}
         /\ sent[r][2].text = "/workspace\r\n"
         /\ reqs[r].pc = "done" <=> Len(sent[r]) = 3
         /\ Len(sent[r]) = 3 => sent[r][3].text = "\r\n$ "
C17_Witness ==
  \E r \in RequestIds :
    /\ reqs[r].message = "pwd " /\ ~reqs[r].flag /\ reqs[r].pc = "done"
    /\ Texts(sent[r]) = << SimulatingFrame("pwd"), "/workspace\r\n", "\r\n$ " >>

\* C18: an inbound frame that holds nothing but whitespace is answered, with
\* the flag true as with the flag false, by the one frame "\r\n$ ": nothing
\* is simulated and no call to the container runtime is made.
OnlyWhitespace(message) == \A i \in 1..Len(message) : IsWhitespace(CharAt(message, i))
C18_EmptyFrameNoOp ==
  \A r \in RequestIds :
    (Dispatched(r) /\ OnlyWhitespace(reqs[r].message))
      => /\ reqs[r].mode = "empty"
         /\ reqs[r].pc = "done"
         /\ Texts(sent[r]) = << "\r\n$ " >>
         /\ reqs[r].calls = NoCalls
         /\ reqs[r].container = 0
C18_Witness ==
  \E q, r \in RequestIds :
    /\ reqs[q].message = " " /\ ~reqs[q].flag /\ Len(sent[q]) = 1
    /\ reqs[r].message = " " /\ reqs[r].flag /\ Len(sent[r]) = 1

\* The parts of C19: the frames, the stop attempt, and what is left.
FailedAfterCreate(r) == reqs[r].raised \in {"start", "exec", "exec start"}
C19_ErrorLineThenStop ==
  \A r \in RequestIds :
    FailedAfterCreate(r)
      => /\ ErrorLineCount(sent[r]) = 1
         /\ IsErrorLine(sent[r][Len(sent[r])].text)
         /\ EndsWith(sent[r][Len(sent[r])].text, "\r\n$ ")
         /\ PromptCount(sent[r]) = 1
         /\ \A k \in 1..Len(sent[r]) : ~IsChunk(sent[r][k])
         /\ reqs[r].calls.stop = 1
         /\ containers[reqs[r].container].stopCalls = 1
         /\ reqs[r].escaped = "none"
C19_NothingRemains ==
  \A r \in RequestIds :
    (FailedAfterCreate(r) /\ reqs[r].pc = "done")
      => containers[reqs[r].container].state = "removed"
\* C19: a request whose start, exec creation or exec start threw after its
\* container was created has sent exactly one error line ending with the
\* prompt and nothing after it, has called stop on the container once, with
\* no exception escaping whether the stop succeeded or failed, and once the
\* stop has returned or thrown the container no longer exists.
C19_CleanupAfterCreate == C19_ErrorLineThenStop /\ C19_NothingRemains

\* C20: a request whose exec stream failed (an 'error', or a 'close' without
\* 'end') has sent one error line and the prompt, and stop has been called on
\* its container.
C20_StreamFailureHandled ==
  \A r \in RequestIds :
    reqs[r].raised = "stream"
      => /\ ErrorLineCount(sent[r]) = 1
         /\ PromptCount(sent[r]) = 1
         /\ StopCalled(r)

\* C21: at every moment of a container-mode request the chunks its command
\* has produced so far have each been sent as one frame, in the order
\* produced, and no chunk frame comes after the prompt frame of the request.
C21_ChunksInOrder ==
  \A r \in RequestIds :
    reqs[r].mode = "container"
      => /\ Len(ChunkFrames(sent[r])) = reqs[r].chunks
         /\ \A k \in 1..Len(ChunkFrames(sent[r])) :
              ChunkFrames(sent[r])[k].text
                \in {CommandOutput[k], "\\x1b[31m" \o CommandOutput[k] \o "\\x1b[0m"}
         /\ \A j, k \in 1..Len(sent[r]) :
              (IsChunk(sent[r][k]) /\ EndsWith(sent[r][j].text, "\r\n$ ")) => k < j
C21_Witness ==
  \E r \in RequestIds :
    /\ reqs[r].pc = "streaming" /\ reqs[r].chunks = 1 /\ Len(sent[r]) = 2
    /\ \E q \in RequestIds :
         /\ reqs[q].pc = "done" /\ reqs[q].chunks = 2 /\ reqs[q].raised = "none"
         /\ Len(sent[q]) = 4 /\ sent[q][4].text = "\r\n$ "

\* C22: every frame of a request is sent to the session that submitted it;
\* every container belongs to the one request that created it, and exec and
\* stop are called on it by that request alone, however the requests of
\* different sessions interleave.
C22_SessionsIndependent ==
  /\ \A r \in RequestIds : \A k \in 1..Len(sent[r]) : sent[r][k].to = reqs[r].session
  /\ \A r \in RequestIds : reqs[r].calls.create <= 1
  /\ \A c \in 1..Len(containers) :
       LET r == containers[c].creator
       IN /\ reqs[r].container = c
          /\ containers[c].execs = reqs[r].calls.exec
          /\ containers[c].stopCalls = reqs[r].calls.stop
  /\ \A q, r \in RequestIds :
       (q # r /\ reqs[q].container # 0) => reqs[q].container # reqs[r].container
C22_Witness ==
  \E q, r \in RequestIds :
    /\ reqs[q].session # reqs[r].session
    /\ reqs[q].container = 1 /\ reqs[r].container = 2
    /\ reqs[q].raised = "exec" /\ containers[1].stopCalls = 1 /\ containers[1].execs = 1
    /\ reqs[r].pc = "streaming" /\ containers[2].stopCalls = 0 /\ containers[2].execs = 1

ContainerBannerText ==
  "Connected to backend execution environment (Docker - node:alpine default).\r\n$ "
SimulatedBannerText ==
  "\\x1b[33mDocker not available. Running in simulated mode (limited functionality).\\x1b[0m\r\n$ "
Opened(s) == ws[s] = "none" /\ ws'[s] = "open"

\* C23: a session that has been opened was sent two frames, the welcome
\* banner and then a text ending with the prompt characters; at the moment of
\* opening that text is the container-mode text if the flag is true and the
\* simulated-mode notice if it is false.
C23_BannerReflectsFlag ==
  /\ [](\A s \in DOMAIN ws :
          ws[s] # "none"
            => /\ Len(banner[s]) = 2
               /\ banner[s][1].text = "\\x1b[1;34mWelcome to the Real Terminal!\\x1b[0m\r\n"
               /\ banner[s][2].text \in {ContainerBannerText, SimulatedBannerText}
               /\ EndsWith(banner[s][2].text, "$ ")
               /\ banner[s][1].to = s /\ banner[s][2].to = s)
  /\ [][\A s \in DOMAIN ws :
          Opened(s) => banner'[s][2].text = IF isDockerAvailable THEN ContainerBannerText
                                                                 ELSE SimulatedBannerText]_vars
C23_Witness ==
  \E s \in DOMAIN ws :
    /\ ws[s] = "open" /\ isDockerAvailable /\ banner[s][2].text = ContainerBannerText

\* C24: every non-empty command of a session is dispatched in the mode its
\* opening banner announced: to the container engine if the banner was the
\* container-mode text, to the simulated shell if it was the simulated-mode
\* notice.
C24_BannerModeKept ==
  \A r \in RequestIds :
    reqs[r].mode \in {"container", "simulated"}
      => (reqs[r].mode = "container"
            <=> banner[reqs[r].session][2].text = ContainerBannerText)

ProbeFailed == probe \in {"constructorThrew", "rejected"}
\* C25: the probe ends once and for all (its outcome never changes again);
\* the flag is true exactly when the ping has resolved; when the constructor
\* threw or the ping was rejected the fallback notice has been logged, the
\* process is up, a client can connect, and every command is answered by the
\* simulated shell.
C25_ProbeNeverFatal ==
  /\ [](isDockerAvailable <=> probe = "resolved")
  /\ [](ProbeFailed
          => /\ \E k \in 1..Len(ProbeLog(probe)) :
                  ProbeLog(probe)[k] = "Using simulated runtime environment instead."
             /\ ProcessUp
             /\ \A s \in DOMAIN ws : ws[s] = "none" => ENABLED Connect(s)
             /\ \A r \in RequestIds :
                  (Dispatched(r) /\ reqs[r].command # "") => reqs[r].mode = "simulated")
  /\ [][probe' # probe => probe = "pending"]_vars
C25_Witness ==
  /\ probe = "rejected"
  /\ \E r \in RequestIds : reqs[r].mode = "simulated" /\ reqs[r].pc = "done"

\* The first position >= i at which t occurs in s, 0 if there is none.
RECURSIVE FindFrom(_, _, _)
FindFrom(s, t, i) ==
  IF i + Len(t) - 1 > Len(s) THEN 0
  ELSE IF SubSeq(s, i, i + Len(t) - 1) = t THEN i
  ELSE FindFrom(s, t, i + 1)
\* The quoted literal that is the argument of the first `call(` of a command
\* line: what stands between the opening quote and the next occurrence of
\* the same quote followed by ")". A one-element set, or {} if there is no
\* such call.
LiteralArgument(command, call) ==
  LET at == FindFrom(command, call \o "(", 1)
      open == at + Len(call) + 1
      quote == CharAt(command, open)
      close == FindFrom(command, quote \o ")", open + 1)
  IN IF at # 0 /\ open <= Len(command) /\ quote \in {"'", "\""} /\ close # 0
     THEN {SubSeq(command, open + 1, close - 1)}
     ELSE {}
IsNodeInvocation(command) == CommandWord(command) = "node" /\ command # "node -v"
IsPythonInline(command) ==
  CommandWord(command) \in {"python", "python3"} /\ Includes(command, " -c ")

\* C26: in simulated mode a node invocation with console.log of a quoted
\* literal, and a python or python3 -c invocation with print of a quoted
\* literal, is answered by exactly that literal, also when the literal holds
\* the other quote character; node -v and the python version queries are
\* answered by the fixed version strings.
C26_LiteralEchoed ==
  \A r \in RequestIds :
    reqs[r].mode = "simulated"
      => LET command == reqs[r].command
             logged == LiteralArgument(command, "console.log")
             printed == LiteralArgument(command, "print")
         IN /\ (IsNodeInvocation(command) /\ logged # {})
                 => \A text \in logged : sent[r][2].text = text \o "\r\n"
            /\ (IsPythonInline(command) /\ printed # {})
                 => \A text \in printed : sent[r][2].text = text \o "\r\n"
            /\ command = "node -v" => sent[r][2].text = "v16.15.0\r\n"
            /\ command \in {"python --version", "python -V", "python3 --version"}
                 => sent[r][2].text = "Python 3.9.13\r\n"

\* C27: for one inbound command each call of the container runtime (inspect,
\* pull, create, start, exec, exec start, exec inspect, stop) is made at most
\* once, and once a step of the request has raised an error no further call
\* is made for it (the stop of the catch block is made in that same step).
C27_NoRetry ==
  /\ [](\A r \in RequestIds :
          \A api \in DOMAIN NoCalls : reqs[r].calls[api] <= 1)
  /\ [][\A r \in RequestIds :
          reqs[r].raised # "none" => reqs'[r].calls = reqs[r].calls]_vars
C27_Witness ==
  \E r \in RequestIds :
    /\ reqs[r].raised = "pull" /\ reqs[r].pc = "done"
    /\ reqs[r].calls.inspect = 1 /\ reqs[r].calls.pull = 1 /\ reqs[r].calls.create = 0

\* The parts of C28.
C28_StatusBehindCheck ==
  \A i \in ProxyIds :
    proxy[i].route = "GET /status"
      => /\ proxy[i].spawned = 0
         /\ proxy[i].responses = 1
         /\ IF HostAllowed(proxy[i].host)
            THEN /\ proxy[i].status = 200
                 /\ proxy[i].body = [kind |-> "status", status |-> "Local proxy running"]
            ELSE proxy[i].status = 403 /\ ~proxy[i].routed
C28_HostBeforeCommand ==
  \A i \in ProxyIds :
    ( /\ proxy[i].route = "POST /exec"
      /\ ~IsLoopbackHost(proxy[i].host)
      /\ proxy[i].command \in {Absent, ""} )
      => proxy[i].status = 403
\* C28: GET /status is answered 200 {status} when the request passes the
\* host check and 403 when it does not, and never spawns a process; a POST
\* /exec that has no command and does not come from the loopback host is
\* answered 403, not 400.
C28_CheckBeforeRoutes == C28_StatusBehindCheck /\ C28_HostBeforeCommand

ProbeSucceeded(outcome) == outcome.kind = "response" /\ outcome.status \in 200..299
ExecFailed(outcome) ==
  \/ outcome.kind = "rejection"
  \/ outcome.kind = "response" /\ outcome.status \notin 200..299
ExecFailureMessage(outcome) ==
  IF outcome.kind = "rejection" THEN outcome.message
  ELSE IF outcome.status = 400 THEN "Proxy server error: 400 Bad Request"
  ELSE "Proxy server error: 403 Forbidden"
\* C29: executeLocalCommand never rejects; it sends POST /exec only when it
\* read the proxy as enabled and its GET /status probe before succeeded; a
\* call that read the proxy as disabled makes no request; a call whose probe
\* failed or timed out returns an error and has not called /exec; a non-2xx
\* answer of /exec or a network failure is returned as {output: '', error:
\* message}.
C29_LocalCommandGuarded ==
  \A c \in LocalCallIds :
    LET rec == localCalls[c] IN
    rec.pc # "none" =>
      /\ rec.settled # "rejected"
      /\ (\E i \in 1..Len(rec.requests) : rec.requests[i] = "POST /exec")
           => /\ rec.enabled
              /\ rec.requests = << "GET /status", "POST /exec" >>
              /\ ProbeSucceeded(rec.status)
      /\ ~rec.enabled => rec.requests = << >> /\ rec.settled = "fulfilled"
      /\ (rec.status # NoOutcome /\ ~ProbeSucceeded(rec.status))
           => /\ rec.settled = "fulfilled"
              /\ rec.requests = << "GET /status" >>
              /\ rec.result.output = "" /\ rec.result.error # ""
      /\ (rec.exec # NoOutcome /\ ExecFailed(rec.exec))
           => /\ rec.settled = "fulfilled"
              /\ rec.result = [output |-> "", error |-> ExecFailureMessage(rec.exec)]
C29_Witness ==
  \E c \in LocalCallIds :
    /\ localCalls[c].settled = "fulfilled"
    /\ localCalls[c].exec.kind = "response" /\ localCalls[c].exec.status = 403
    /\ localCalls[c].result = [output |-> "", error |-> "Proxy server error: 403 Forbidden"]

\* The parts of C30.
C30_StatusMatchesMode ==
  panel.mounted => (panel.status = "LocalProxy" <=> panel.useLocalProxy)
C30_SentOnlyOpenWs ==
  [][wsSent' # wsSent
       => /\ ~panel.useLocalProxy
          /\ panel.webSocket # 0
          /\ sockets[panel.webSocket].readyState = "OPEN"
          /\ \E command \in PanelCommands :
               wsSent' = Append(wsSent, [socket |-> panel.webSocket,
                                         data |-> command \o "\n"])]_vars
\* C30: whatever the mount-time check, the mode toggles and the WebSocket
\* events have been, the panel shows the status 'LocalProxy' exactly when
\* useLocalProxy is true, and a command goes out over the WebSocket only while
\* useLocalProxy is false and the socket is open.
C30_StatusFollowsMode == []C30_StatusMatchesMode /\ C30_SentOnlyOpenWs

====
